---- MODULE Spec2Model ----
(***************************************************************************)
(* doccer: the pre-commit documentation pipeline of doccer/__init__.py.    *)
(*                                                                         *)
(* precommit_hook discovers every pyproject.toml below the working         *)
(* directory, resolves a DocConfig from each one that has a [tool.doccer]  *)
(* section, and for each configuration builds the documentation with       *)
(* sphinx-build into a temporary directory and copies the rendered .rst    *)
(* files to the deploy directory.                                          *)
(*                                                                         *)
(* Paths are sequences of components.  An absolute path starts with the    *)
(* component "/".  File contents are sequences of strings.                 *)
(***************************************************************************)
EXTENDS Integers, Sequences, FiniteSets, TLC

VARIABLES
    manifests,   \* the pyproject.toml files in rglob order: parsed content and directory
    dirs,        \* the directories that exist (absolute paths)
    files,       \* the regular files that exist: absolute path -> content
    pc,          \* position of precommit_hook
    configs,     \* the list returned by _load_configs (None before it returns)
    idx,         \* index in configs of the loop variable config
    tmpdir,      \* the directory of the active `with TemporaryDirectory()` (None outside)
    error,       \* the exception in flight or raised out of precommit_hook (None: none)
    calls,       \* the stage calls precommit_hook made, in order, with their outcome
    result       \* what precommit_hook returned ("running" until it returns)

vars == <<manifests, dirs, files, pc, configs, idx, tmpdir, error, calls, result>>

(***************************************************************************)
(* Bounds of the model.                                                    *)
(***************************************************************************)
MaxOutFiles == 2       \* files one sphinx-build run writes
MaxStdoutLen == 2      \* words of captured sphinx-build output

None == [none |-> TRUE]   \* Python's None where a DocConfig is expected
NoKey == <<"<no key>">>   \* a key the manifest does not have (where a path is expected)
NoName == "<no key>"      \* project.name missing from the manifest
NoDir == <<>>             \* no temporary directory is active

(***************************************************************************)
(* Paths.                                                                  *)
(***************************************************************************)
Cwd == <<"/", "repo">>
TmpRoot == <<"/", "tmp">>

IsAbs(p) == Len(p) > 0 /\ p[1] = "/"

\* Path(a) / b
Join(a, b) == IF IsAbs(b) THEN b ELSE a \o b

\* what the operating system makes of a path handed to it
Abs(p) == Join(Cwd, p)

\* Path(p).parent
Parent(p) == IF Len(p) = 0 THEN p ELSE SubSeq(p, 1, Len(p) - 1)

\* Path(p).name
Name(p) == p[Len(p)]

IsPrefix(a, b) == Len(a) <= Len(b) /\ SubSeq(b, 1, Len(a)) = a

\* docfile.relative_to(base)
RelativeTo(p, base) == SubSeq(p, Len(base) + 1, Len(p))

\* Path(p).exists()
Exists(d, f, p) == Abs(p) \in d \/ Abs(p) \in DOMAIN f

Under(f, base) == {p \in DOMAIN f : IsPrefix(Abs(base), p) /\ p # Abs(base)}

\* os.makedirs(p, exist_ok=True)
MakeDirs(d, p) == d \cup {SubSeq(Abs(p), 1, k) : k \in 1..Len(Abs(p))}

Restrict(f, S) == [p \in S |-> f[p]]

\* open(p, "w").write(content)
WriteFile(f, p, content) ==
    [q \in DOMAIN f \cup {Abs(p)} |-> IF q = Abs(p) THEN content ELSE f[q]]

(***************************************************************************)
(* Manifests.  A manifest is the relative path rglob yields for it and the *)
(* parsed TOML: whether [tool.doccer] is there, its doc_src key, and       *)
(* project.name and project.authors.                                       *)
(***************************************************************************)
ManifestDirs == {<<>>, <<"sub">>}
DocSrcKeys == {NoKey, <<"doc">>}
Alice == [name |-> "alice", email |-> "alice@example.org"]
AuthorLists == {<<>>, <<Alice>>}
ProjectNames == {NoName, "demo"}

Tomls ==
    [hasTool : BOOLEAN, doc_src : DocSrcKeys, authors : AuthorLists, name : ProjectNames]

Injective(s) == \A i, j \in DOMAIN s : s[i] = s[j] => i = j

\* the sequences Path(repo_root).rglob("pyproject.toml") can yield: the directories
\* that hold a manifest, in any order
Discoveries ==
    UNION {{s \in [1..n -> ManifestDirs] : Injective(s)} : n \in 1..Cardinality(ManifestDirs)}

ManifestPath(dir) == Join(dir, <<"pyproject.toml">>)

\* EmailContact(name="unknown", email="unknown")
UnknownContact == [name |-> "unknown", email |-> "unknown"]

\* the expression toml["project"]["name"] raises KeyError
LoadConfigRaises(m) == m.toml.hasTool /\ m.toml.name = NoName

\* _load_config without the test for the [tool.doccer] section
LoadConfigIgnoringSection(m) ==
    LET src_dir == IF m.toml.doc_src = NoKey THEN <<"docs", "src">> ELSE m.toml.doc_src
    IN  [pyproject_path |-> m.path,
         pyproject_data |-> m.toml,
         doc_src |-> src_dir,
         doc_dest |-> <<>>,
         derived |-> [author |-> IF Len(m.toml.authors) > 0 THEN m.toml.authors[1]
                                 ELSE UnknownContact,
                      build_dir |-> Join(Parent(src_dir), <<"build">>),
                      deploy_dir |-> <<>>],
         py_modules |-> <<m.toml.name>>]

\* _load_config(pyproject), for a manifest on which it does not raise
LoadConfig(m) ==
    IF ~m.toml.hasTool
    THEN None
    ELSE LET src_dir == IF m.toml.doc_src = NoKey THEN <<"docs", "src">>
                        ELSE m.toml.doc_src
             derived_config ==
                 [author |-> IF Len(m.toml.authors) > 0 THEN m.toml.authors[1]
                             ELSE UnknownContact,
                  build_dir |-> Join(Parent(src_dir), <<"build">>),
                  deploy_dir |-> <<>>]
         IN  [pyproject_path |-> m.path,
              pyproject_data |-> m.toml,
              doc_src |-> src_dir,
              doc_dest |-> <<>>,
              derived |-> derived_config,
              py_modules |-> <<m.toml.name>>]

\* `if config := ...`: None is false, a non-empty dict is true
Truthy(c) == c # None

RECURSIVE LoadConfigsFrom(_, _)
LoadConfigsFrom(ms, i) ==
    IF i > Len(ms) THEN <<>>
    ELSE LET config == LoadConfig(ms[i])
         IN  (IF Truthy(config) THEN <<config>> ELSE <<>>) \o LoadConfigsFrom(ms, i + 1)

\* _load_configs(), when no manifest makes _load_config raise
LoadConfigsResult(ms) == LoadConfigsFrom(ms, 1)

(***************************************************************************)
(* Scaffold generation.                                                    *)
(***************************************************************************)
Templates ==
    << [name |-> "README.rst.jinja2", sub |-> <<>>],
       [name |-> "subpage.rst.jinja2", sub |-> <<"docs">>],
       [name |-> "conf.py.jinja2", sub |-> <<>>],
       [name |-> "Makefile.jinja2", sub |-> <<>>] >>

\* template_name.replace(".jinja2", "")
DestName(template_name) ==
    CASE template_name = "README.rst.jinja2" -> "README.rst"
      [] template_name = "subpage.rst.jinja2" -> "subpage.rst"
      [] template_name = "conf.py.jinja2" -> "conf.py"
      [] template_name = "Makefile.jinja2" -> "Makefile"

\* template.render(**kwargs): a function of the template and of the context
Rendered(template_name, config) == <<"rendered", template_name>> \o config.pyproject_path

\* _render_template.  how = "ok": it returns; "lookup": get_template raises;
\* "render": template.render raises, after the directory was made and the file opened
RenderTemplate(fs, template_name, dest_dir, config, how) ==
    IF how = "lookup" THEN fs
    ELSE [d |-> MakeDirs(fs.d, dest_dir),
          f |-> WriteFile(fs.f, Join(dest_dir, <<DestName(template_name)>>),
                          IF how = "ok" THEN Rendered(template_name, config) ELSE <<>>)]

\* every template rendered to the source directory itself
TemplateDirFlat(config, k) == config.doc_src

\* the directory the k-th template is rendered to
TemplateDir(config, k) == Join(config.doc_src, Templates[k].sub)

\* _generate_sample_docs_source: the first `good` templates render, and the next one
\* (when there is one) fails the way `how` says
GenerateSampleDocsSource(fs, config, good, how) ==
    LET RECURSIVE Upto(_)
        Upto(k) ==
            IF k = 0 THEN fs
            ELSE RenderTemplate(Upto(k - 1), Templates[k].name, TemplateDir(config, k),
                                config, IF k <= good THEN "ok" ELSE how)
    IN  Upto(IF good < Len(Templates) THEN good + 1 ELSE good)

(***************************************************************************)
(* The external builder.                                                   *)
(***************************************************************************)
\* what sphinx-build may write below its output directory
OutCandidates == {<<"README.rst">>, <<"docs", "subpage.rst">>, <<"objects.inv">>}
OutSets == {S \in SUBSET OutCandidates : Cardinality(S) <= MaxOutFiles}

StdoutWords == {"writing", "output"}
Stdouts == UNION {[1..n -> StdoutWords] : n \in 0..MaxStdoutLen}

\* b"writing output" in sphinx_proc.stdout
WritingOutputIn(stdout) ==
    \E i \in 1..(Len(stdout) - 1) : stdout[i] = "writing" /\ stdout[i + 1] = "output"

\* the command line with the build directory _load_config computed
SphinxCmdPlaceholder(config) ==
    [src |-> config.doc_src, out |-> Join(Parent(config.doc_src), <<"build">>)]

\* the positional arguments of the sphinx-build command line
SphinxCmd(config) == [src |-> config.doc_src, out |-> config.derived.build_dir]

\* the content sphinx-build renders for one output file of one project
Built(cmd, config, rel) == <<"built">> \o config.pyproject_path

\* the file system after sphinx-build wrote the files `outs` below cmd.out
RECURSIVE SphinxWrites(_, _, _, _)
SphinxWrites(fs, cmd, config, outs) ==
    IF outs = {} THEN fs
    ELSE LET rel == CHOOSE r \in outs : TRUE
             to == Join(cmd.out, rel)
         IN  SphinxWrites([d |-> MakeDirs(fs.d, Parent(to)),
                           f |-> WriteFile(fs.f, to, Built(cmd, config, rel))],
                          cmd, config, outs \ {rel})

\* check=False: the exit status is not looked at
BuildNeverRaises(returncode) == FALSE

\* check=True: a non-zero exit status raises CalledProcessError
BuildRaises(returncode) == returncode # 0

\* the value _build_with_sphinx returns when it returns
BuildWithSphinx(stdout) == WritingOutputIn(stdout)

(***************************************************************************)
(* Deployment.                                                             *)
(***************************************************************************)
\* the names the pattern "*.rst" matches
MatchesRst(name) == name \in {"README.rst", "subpage.rst"}

\* Path(base).rglob("*.rst"): files and directories at any depth
RGlobRst(fs, base) ==
    {p \in fs.d \cup DOMAIN fs.f :
        IsPrefix(Abs(base), p) /\ p # Abs(base) /\ MatchesRst(Name(p))}

Orders(S) == {s \in [1..Cardinality(S) -> S] : Injective(s)}

\* shutil.copy(src, dst): err = "None" when it returns
Copy(fs, src, dst) ==
    IF Abs(src) \in fs.d THEN [fs |-> fs, err |-> "IsADirectoryError"]
    ELSE LET to == IF Abs(dst) \in fs.d THEN Join(Abs(dst), <<Name(src)>>) ELSE Abs(dst)
         IN  IF Parent(to) \notin fs.d
             THEN [fs |-> fs, err |-> "FileNotFoundError"]
             ELSE [fs |-> [d |-> fs.d, f |-> WriteFile(fs.f, to, fs.f[Abs(src)])],
                   err |-> "None"]

\* the file name alone below the deploy directory
DeployDestFlat(config, docfile) == Join(config.derived.deploy_dir, <<Name(docfile)>>)

\* where _deploy_docs copies docfile to
DeployDest(config, docfile) ==
    Join(config.derived.deploy_dir, RelativeTo(docfile, Abs(config.derived.build_dir)))

\* _deploy_docs, rglob yielding the files in the order `order`
RECURSIVE DeployDocs(_, _, _, _)
DeployDocs(fs, config, order, i) ==
    IF i > Len(order) THEN [fs |-> fs, err |-> "None"]
    ELSE LET r == Copy(fs, order[i], DeployDest(config, order[i]))
         IN  IF r.err # "None" THEN r ELSE DeployDocs(r.fs, config, order, i + 1)

\* a removal that empties the directory and leaves it
RmTreeContentsOnly(fs, dir) ==
    [d |-> {p \in fs.d : ~IsPrefix(dir, p) \/ p = dir},
     f |-> Restrict(fs.f, {p \in DOMAIN fs.f : ~IsPrefix(dir, p)})]

\* TemporaryDirectory.__exit__: the directory and everything below it is removed
RmTree(fs, dir) ==
    [d |-> {p \in fs.d : ~IsPrefix(dir, p)},
     f |-> Restrict(fs.f, {p \in DOMAIN fs.f : ~IsPrefix(dir, p)})]

\* tempfile.mkdtemp: the names a new temporary directory can get
TmpNames == {"tmpa", "tmpb"}

(***************************************************************************)
(* The initial state: a repository with its manifests, before the hook     *)
(* runs.  The working directory is the repository root.                    *)
(***************************************************************************)
\* the directories of the repository that may be there before the run
Layouts ==
    {S \in SUBSET {<<"docs">>, <<"docs", "src">>, <<"doc">>} :
        <<"docs", "src">> \in S => <<"docs">> \in S}

\* a documentation source directory that is there holds an authored root document
Authored(S) == {Join(Abs(p), <<"README.rst">>) : p \in S \ {<<"docs">>}}

InitDirs(ms, S) ==
    {<<"/">>, Cwd, TmpRoot}
        \cup {Abs(Parent(ms[i].path)) : i \in DOMAIN ms}
        \cup {Abs(p) : p \in S}

InitFiles(ms, S) ==
    LET manifestFiles == {Abs(ms[i].path) : i \in DOMAIN ms}
        deployed == {Abs(<<"README.rst">>)}
    IN  [p \in manifestFiles \cup Authored(S) \cup deployed |->
            IF p \in manifestFiles THEN <<"toml">>
            ELSE IF p \in deployed THEN <<"old">>
            ELSE <<"authored">>]

Init ==
    /\ \E order \in Discoveries :
         \E tomls \in [DOMAIN order -> Tomls] :
            manifests = [i \in DOMAIN order |->
                            [path |-> ManifestPath(order[i]), toml |-> tomls[i]]]
    /\ \E S \in Layouts :
         /\ dirs = InitDirs(manifests, S)
         /\ files = InitFiles(manifests, S)
    /\ pc = "load"
    /\ configs = <<>>
    /\ idx = 0
    /\ tmpdir = NoDir
    /\ error = "None"
    /\ calls = <<>>
    /\ result = "running"

(***************************************************************************)
(* precommit_hook, one action per stage.                                   *)
(***************************************************************************)
FS == [d |-> dirs, f |-> files]

\* configs = _load_configs()
LoadConfigs ==
    /\ pc = "load"
    /\ IF \E i \in DOMAIN manifests : LoadConfigRaises(manifests[i])
       THEN /\ error' = "KeyError"
            /\ pc' = "raised"
            /\ UNCHANGED <<configs, idx>>
       ELSE /\ configs' = LoadConfigsResult(manifests)
            /\ idx' = 1
            /\ pc' = "loop"
            /\ UNCHANGED error
    /\ UNCHANGED <<manifests, dirs, files, tmpdir, calls, result>>

\* with tempfile.TemporaryDirectory() as tmpdir: config["derived"]["build_dir"] = tmpdir
EnterTmpDir ==
    /\ pc = "loop"
    /\ idx <= Len(configs)
    /\ \E name \in TmpNames :
         LET dir == Join(TmpRoot, <<name>>)
         IN  /\ dir \notin dirs
             /\ dir \notin DOMAIN files
             /\ dirs' = dirs \cup {dir}
             /\ tmpdir' = dir
             /\ configs' = [configs EXCEPT ![idx].derived.build_dir = dir]
             /\ calls' = Append(calls, [op |-> "mkdtemp",
                                        cfg |-> configs[idx].pyproject_path,
                                        dir |-> dir])
    /\ pc' = "check"
    /\ UNCHANGED <<manifests, files, idx, error, result>>

\* if not Path(config["doc_src"]).exists(): _generate_sample_docs_source(config)
Scaffold ==
    /\ pc = "check"
    /\ ~Exists(dirs, files, configs[idx].doc_src)
    /\ \E good \in 0..Len(Templates), how \in {"lookup", "render"} :
         LET fs == GenerateSampleDocsSource(FS, configs[idx], good, how)
             raised == good < Len(Templates)
         IN  /\ (~raised => how = "lookup")
             /\ dirs' = fs.d
             /\ files' = fs.f
             /\ calls' = Append(calls, [op |-> "scaffold",
                                        cfg |-> configs[idx].pyproject_path,
                                        src |-> configs[idx].doc_src,
                                        raised |-> raised])
             /\ pc' = IF raised THEN "unwind" ELSE "build"
             /\ error' = IF raised THEN "TemplateError" ELSE error
    /\ UNCHANGED <<manifests, configs, idx, tmpdir, result>>

\* the source directory exists: no scaffold is generated
SkipScaffold ==
    /\ pc = "check"
    /\ Exists(dirs, files, configs[idx].doc_src)
    /\ pc' = "build"
    /\ UNCHANGED <<manifests, dirs, files, configs, idx, tmpdir, error, calls, result>>

\* _build_with_sphinx(config)
Build ==
    /\ pc = "build"
    /\ \E returncode \in {0, 1}, outs \in OutSets, stdout \in Stdouts :
         LET cmd == SphinxCmd(configs[idx])
             fs == SphinxWrites(FS, cmd, configs[idx], outs)
             raised == BuildRaises(returncode)
         IN  /\ dirs' = fs.d
             /\ files' = fs.f
             /\ calls' = Append(calls, [op |-> "build",
                                        cfg |-> configs[idx].pyproject_path,
                                        src |-> cmd.src,
                                        out |-> cmd.out,
                                        returncode |-> returncode,
                                        marker |-> WritingOutputIn(stdout),
                                        ret |-> IF raised THEN "raised"
                                                ELSE IF BuildWithSphinx(stdout) THEN "True"
                                                ELSE "False"])
             /\ pc' = IF raised THEN "unwind" ELSE "deploy"
             /\ error' = IF raised THEN "CalledProcessError" ELSE error
    /\ UNCHANGED <<manifests, configs, idx, tmpdir, result>>

\* _deploy_docs(config)
Deploy ==
    /\ pc = "deploy"
    /\ \E order \in Orders(RGlobRst(FS, configs[idx].derived.build_dir)) :
         LET r == DeployDocs(FS, configs[idx], order, 1)
         IN  /\ dirs' = r.fs.d
             /\ files' = r.fs.f
             /\ calls' = Append(calls, [op |-> "deploy",
                                        cfg |-> configs[idx].pyproject_path,
                                        from |-> configs[idx].derived.build_dir,
                                        to |-> configs[idx].derived.deploy_dir,
                                        err |-> r.err])
             /\ pc' = IF r.err # "None" THEN "unwind" ELSE "exit"
             /\ error' = r.err
    /\ UNCHANGED <<manifests, configs, idx, tmpdir, result>>

\* a with block that swallows the exception: the loop goes on with the next project
ExitTmpDirSwallowing ==
    /\ pc \in {"exit", "unwind"}
    /\ dirs' = RmTree(FS, tmpdir).d
    /\ files' = RmTree(FS, tmpdir).f
    /\ calls' = Append(calls, [op |-> "cleanup",
                               cfg |-> configs[idx].pyproject_path,
                               dir |-> tmpdir])
    /\ tmpdir' = NoDir
    /\ idx' = idx + 1
    /\ pc' = "loop"
    /\ UNCHANGED <<manifests, configs, error, result>>

\* leaving the with block: the directory is removed, then the loop goes on or the
\* exception in flight leaves precommit_hook
ExitTmpDir ==
    /\ pc \in {"exit", "unwind"}
    /\ LET fs == RmTree(FS, tmpdir)
       IN  /\ dirs' = fs.d
           /\ files' = fs.f
    /\ calls' = Append(calls, [op |-> "cleanup",
                               cfg |-> configs[idx].pyproject_path,
                               dir |-> tmpdir])
    /\ tmpdir' = NoDir
    /\ IF pc = "exit"
       THEN idx' = idx + 1 /\ pc' = "loop"
       ELSE idx' = idx /\ pc' = "raised"
    /\ UNCHANGED <<manifests, configs, error, result>>

\* the loop is over: precommit_hook returns None
Return ==
    /\ pc = "loop"
    /\ idx > Len(configs)
    /\ pc' = "done"
    /\ result' = "None"
    /\ UNCHANGED <<manifests, dirs, files, configs, idx, tmpdir, error, calls>>

Next ==
    \/ LoadConfigs
    \/ EnterTmpDir
    \/ Scaffold
    \/ SkipScaffold
    \/ Build
    \/ Deploy
    \/ ExitTmpDir
    \/ Return

Spec == Init /\ [][Next]_vars

(***************************************************************************)
(* Vocabulary of the properties.                                           *)
(***************************************************************************)
InIteration == pc \in {"check", "build", "deploy", "exit", "unwind"}

\* the temporary directories that exist
TmpDirs == {p \in dirs : Len(p) = Len(TmpRoot) + 1 /\ IsPrefix(TmpRoot, p)}

ManifestAt(path) == CHOOSE i \in DOMAIN manifests : manifests[i].path = path

LastCall == calls[Len(calls)]

Failed(call) ==
    \/ call.op = "scaffold" /\ call.raised
    \/ call.op = "build" /\ call.ret = "raised"
    \/ call.op = "deploy" /\ call.err # "None"

CallsOf(path, ops) == {i \in DOMAIN calls : calls[i].cfg = path /\ calls[i].op \in ops}

\* C1: a manifest without a [tool.doccer] section resolves to no configuration, is not
\* in the list _load_configs returns, and no stage (temporary directory, scaffold,
\* build, deployment, cleanup) ever runs for it; when no manifest of the repository has
\* the section the run makes no call at all.
Thm_C1_NoSectionNoStage ==
    /\ \A i \in DOMAIN manifests :
         ~manifests[i].toml.hasTool =>
            /\ LoadConfig(manifests[i]) = None
            /\ \A k \in DOMAIN configs : configs[k].pyproject_path # manifests[i].path
            /\ \A j \in DOMAIN calls : calls[j].cfg # manifests[i].path
    /\ (\A i \in DOMAIN manifests : ~manifests[i].toml.hasTool) => calls = <<>>

\* a finished run that built and deployed one project and left out the other,
\* which has no section
Wit_C1 ==
    /\ pc = "done"
    /\ \E i \in DOMAIN manifests : ~manifests[i].toml.hasTool
    /\ \E j \in DOMAIN calls : calls[j].op = "deploy"

\* C2: inside an iteration exactly one temporary directory exists, the one of the
\* with block, and it is empty when the iteration starts; outside an iteration
\* (between projects, after the return, after an exception left the hook) none exists
\* and no file is left below the temporary root.
Thm_C2_TmpDirScoped ==
    /\ InIteration => TmpDirs = {tmpdir}
    /\ ~InIteration => TmpDirs = {} /\ tmpdir = NoDir
    /\ ~InIteration => Under(files, TmpRoot) = {}
    /\ pc = "check" => Under(files, tmpdir) = {}
    /\ Cardinality(TmpDirs) <= 1

\* a deployment failed with rendered files in the temporary directory, and the
\* directory is gone once the exception has left the with block
Wit_C2 ==
    /\ pc = "raised"
    /\ error = "FileNotFoundError"
    /\ LastCall.op = "cleanup"
    /\ TmpDirs = {}

\* C3: a build whose exit status is not zero returns no value (it raises), nothing is
\* deployed for that project and the builder is not run for it again; the exception
\* that leaves the hook is the builder's.
Thm_C3_BuildFailureFatal ==
    /\ \A i \in DOMAIN calls :
         (calls[i].op = "build" /\ calls[i].returncode # 0) =>
            /\ calls[i].ret = "raised"
            /\ \A j \in DOMAIN calls :
                 (j > i /\ calls[j].cfg = calls[i].cfg) => calls[j].op = "cleanup"
    /\ (pc \in {"unwind", "raised"} /\ \E i \in DOMAIN calls : calls[i].op = "build"
            /\ calls[i].returncode # 0) => error = "CalledProcessError"

\* the builder failed after it had rendered .rst files, which are not deployed
Wit_C3 ==
    /\ pc = "unwind"
    /\ error = "CalledProcessError"
    /\ RGlobRst(FS, tmpdir) # {}

BuiltRst == RGlobRst(FS, tmpdir) \cap DOMAIN files

\* the path below the deploy directory that docfile has below the build directory
SamePathDeployed(config, docfile) ==
    Abs(config.derived.deploy_dir) \o SubSeq(docfile, Len(tmpdir) + 1, Len(docfile))

\* docfile is at the same relative path below the deploy directory, with its content
DeployedAs(config, docfile) ==
    /\ SamePathDeployed(config, docfile) \in DOMAIN files
    /\ files[SamePathDeployed(config, docfile)] = files[docfile]

\* C5 as claimed: once _deploy_docs is over, every .rst file below the build
\* directory is at the same relative path below the deploy directory with the same
\* content, also a file of a subdirectory that the deploy directory does not have.
Cex_C5_DeployRoundTripAlways ==
    (pc \in {"exit", "unwind"} /\ LastCall.op = "deploy") =>
        \A docfile \in BuiltRst : DeployedAs(configs[idx], docfile)

\* C5 amended: when _deploy_docs returns, every .rst file below the build directory
\* is at the same relative path below the deploy directory with the same content.
\* _deploy_docs makes no directory: it raises FileNotFoundError exactly when some .rst
\* file belongs to a directory that the deploy directory does not have, and such a
\* file is not deployed.
Thm_C5_DeployRoundTrip ==
    LET NoParent(docfile) == Parent(SamePathDeployed(configs[idx], docfile)) \notin dirs
    IN  /\ pc = "exit" => \A docfile \in BuiltRst : DeployedAs(configs[idx], docfile)
        /\ (InIteration /\ LastCall.op = "deploy") =>
             /\ (\E docfile \in BuiltRst : NoParent(docfile))
                    <=> (pc = "unwind" /\ error = "FileNotFoundError")
             /\ \A docfile \in BuiltRst :
                    NoParent(docfile) => ~DeployedAs(configs[idx], docfile)

\* a deployment returned after copying a file of a nested directory
Wit_C5 ==
    /\ pc = "exit"
    /\ Join(tmpdir, <<"docs", "subpage.rst">>) \in BuiltRst
    /\ Join(tmpdir, <<"README.rst">>) \in BuiltRst
    /\ files[Abs(<<"docs", "subpage.rst">>)] = Built(SphinxCmd(configs[idx]), configs[idx],
                                                      <<"docs", "subpage.rst">>)

\* C6 as claimed: the value _build_with_sphinx returns reaches the outcome of the
\* run: a run in which some build wrote output ends otherwise than a run in which
\* none did.
Cex_C6_ChangedFlagRecorded ==
    pc = "done" =>
        (result # "None" <=> \E i \in DOMAIN calls :
                                calls[i].op = "build" /\ calls[i].ret = "True")

\* the files below the source directory of the current configuration
SourceFiles == Under(files, configs[idx].doc_src)

ScaffoldFiles(config) ==
    {Abs(Join(TemplateDir(config, k), <<DestName(Templates[k].name)>>)) :
        k \in DOMAIN Templates}

\* C7: when the source directory is absent at the check, the builder is reached only
\* after scaffold generation wrote exactly the four files README.rst,
\* docs/subpage.rst, conf.py and Makefile below it, each with its rendered content;
\* when the source directory is there, the builder is reached with the file system
\* as it was and without a scaffold call.
Thm_C7_ScaffoldBeforeBuild ==
    [][pc = "check" =>
         IF ~Exists(dirs, files, configs[idx].doc_src)
         THEN /\ calls'[Len(calls')].op = "scaffold"
              /\ pc' \in {"build", "unwind"}
              /\ pc' = "build" =>
                   /\ Under(files', configs[idx].doc_src) =
                         {Join(Abs(configs[idx].doc_src), rel) :
                             rel \in {<<"README.rst">>, <<"docs", "subpage.rst">>,
                                      <<"conf.py">>, <<"Makefile">>}}
                   /\ \A k \in DOMAIN Templates :
                        files'[Abs(Join(TemplateDir(configs[idx], k),
                                        <<DestName(Templates[k].name)>>))]
                            = Rendered(Templates[k].name, configs[idx])
         ELSE /\ pc' = "build"
              /\ files' = files
              /\ dirs' = dirs
              /\ calls' = calls]_vars

\* the builder is about to run on a source directory that scaffold generation made
Wit_C7 ==
    /\ pc = "build"
    /\ LastCall.op = "scaffold"
    /\ SourceFiles = ScaffoldFiles(configs[idx])
    /\ Cardinality(SourceFiles) = 4

\* C8 as claimed: the derived record of every configuration has the four fields
\* author, build_dir, deploy_dir and project_name.
Cex_C8_DerivedComplete ==
    \A k \in DOMAIN configs :
        {"author", "build_dir", "deploy_dir", "project_name"} \subseteq DOMAIN configs[k].derived

\* C9 as claimed: for a manifest with the section and without a doc_src key, the
\* source directory handed to the builder is docs/src below the directory of the
\* manifest.
Cex_C9_DocSrcRelativeToManifest ==
    \A i \in DOMAIN calls :
        (calls[i].op = "build"
            /\ manifests[ManifestAt(calls[i].cfg)].toml.doc_src = NoKey) =>
                Abs(calls[i].src) = Abs(Join(Parent(calls[i].cfg), <<"docs", "src">>))

\* the configuration _load_config returned for configs[k], with the build directory
\* of its iteration injected
Injected(k, dir) ==
    [LoadConfig(manifests[ManifestAt(configs[k].pyproject_path)])
        EXCEPT !.derived.build_dir = dir]

\* C10: from the injection to the end of the iteration the configuration is the one
\* _load_config returned with build_dir replaced by the temporary directory of the
\* iteration, which exists; the builder's output directory and the deployer's source
\* directory are that directory, not the placeholder.
Thm_C10_BuildDirInjectedOnce ==
    /\ InIteration =>
         /\ configs[idx] = Injected(idx, tmpdir)
         /\ tmpdir \in dirs
         /\ SphinxCmd(configs[idx]).out = tmpdir
         /\ tmpdir # LoadConfig(manifests[ManifestAt(configs[idx].pyproject_path)])
                        .derived.build_dir
    /\ \A k \in DOMAIN configs :
         (pc # "load" /\ k > idx) =>
            configs[k] = LoadConfig(manifests[ManifestAt(configs[k].pyproject_path)])
    /\ \A i \in DOMAIN calls :
         /\ calls[i].op = "build" =>
              calls[i - 1 - (IF calls[i - 1].op = "scaffold" THEN 1 ELSE 0)]
                  = [op |-> "mkdtemp", cfg |-> calls[i].cfg, dir |-> calls[i].out]
         /\ calls[i].op = "deploy" =>
              /\ calls[i - 1].op = "build"
              /\ calls[i].from = calls[i - 1].out

\* the deployer is about to read the temporary directory the builder wrote to
Wit_C10 ==
    /\ pc = "deploy"
    /\ LastCall.op = "build"
    /\ LastCall.out = tmpdir
    /\ BuiltRst # {}

====
